---- MODULE Spec2Model ----
(***************************************************************************)
(* MelaScalp triage engine (src/triage_engine.py) and its triage endpoint  *)
(* (src/api_server.py).                                                    *)
(*                                                                         *)
(* A client thread submits a quiz mapping to classify() of an engine       *)
(* instance; the call runs _parse_input, _run_decision_tree,               *)
(* _apply_referral_rules and _format_output, each on the locals of its own *)
(* frame.  The only per-engine state is rule_chain, set by __init__.       *)
(*                                                                         *)
(* Strings are TLA+ strings.  str.lower() and str.strip() are the tables   *)
(* Lower and Strip over the raw spellings the model submits; the python    *)
(* test `"oil" in p` (substring) is the table HasSubstringOil.             *)
(* Lists are sequences: the rules test membership and take len().          *)
(***************************************************************************)
EXTENDS Integers, Sequences, FiniteSets, TLC

VARIABLES
    rule_chain,     \* engine -> self.rule_chain (sequence of rule names)
    pc,             \* caller -> position of its classify() call
    engine,         \* caller -> engine instance the current call runs on
    input_data,     \* caller -> the mapping passed to classify()
    triage_input,   \* caller -> TriageInput built by _parse_input
    result,         \* caller -> TriageResult held by the call
    output,         \* caller -> dict returned by classify()
    prev,           \* caller -> input and output of the caller's previous call
    rel,            \* caller -> how the current input was derived from prev
    response        \* caller -> HTTP response of the triage endpoint

vars ==
    <<rule_chain, pc, engine, input_data, triage_input, result, output, prev, rel,
      response>>

(***************************************************************************)
(* Bounds of the model.                                                    *)
(***************************************************************************)
MaxSymptoms == 3

Callers == {1, 2}
Engines == {1, 2}

(***************************************************************************)
(* Enumerations and class-level tables.                                    *)
(***************************************************************************)
ConditionLabel ==
    {"seborrheic_dermatitis", "folliculitis", "psoriasis", "scalp_acne",
     "tension_damage", "product_buildup", "dry_scalp", "contact_dermatitis",
     "unclear"}

ConfidenceLevel == {"low", "moderate", "high"}

CARE_PLANS ==
    [l \in ConditionLabel |->
        CASE l = "seborrheic_dermatitis" -> "CP-001"
          [] l = "folliculitis"          -> "CP-002"
          [] l = "psoriasis"             -> "CP-003"
          [] l = "scalp_acne"            -> "CP-004"
          [] l = "tension_damage"        -> "CP-005"
          [] l = "product_buildup"       -> "CP-006"
          [] l = "dry_scalp"             -> "CP-006"
          [] l = "contact_dermatitis"    -> "CP-007"
          [] l = "unclear"               -> "CP-999"]

PROTECTIVE_STYLES ==
    {"braids", "cornrows", "weave", "extensions", "locs",
     "twists", "faux_locs", "crochet", "tight_ponytail"}

LOW_WASH_FREQUENCIES == {"biweekly", "monthly", "less_than_monthly"}

HEAVY_PRODUCTS == {"edge_control", "pomade", "grease", "gel", "wax"}

(***************************************************************************)
(* String operations, as tables over the spellings the model uses.         *)
(***************************************************************************)
\* str.lower()
Lower(s) ==
    CASE s = " Bleeding" -> " bleeding"
      [] s = "Bleeding"  -> "bleeding"
      [] s = "Braids "   -> "braids "
      [] s = "Braids"    -> "braids"
      [] s = "Monthly"   -> "monthly"
      [] s = "Eczema"    -> "eczema"
      [] s = "GEL "      -> "gel "
      [] s = "GEL"       -> "gel"
      [] OTHER           -> s

\* str.strip()
Strip(s) ==
    CASE s = " Bleeding" -> "Bleeding"
      [] s = " bleeding" -> "bleeding"
      [] s = "Braids "   -> "Braids"
      [] s = "braids "   -> "braids"
      [] s = "GEL "      -> "GEL"
      [] s = "gel "      -> "gel"
      [] OTHER           -> s

\* s.lower().strip()
Normalize(s) == Strip(Lower(s))

\* [x.lower().strip() for x in xs]
NormalizeList(xs) == [i \in 1..Len(xs) |-> Normalize(xs[i])]

\* "oil" in p  (substring test on a product token)
HasSubstringOil(p) == p \in {"oil", "coconut_oil", "oil_sheen", "hot_oil_treatment"}

\* any(s in xs for s in tokens)
AnyIn(tokens, xs) == \E i \in 1..Len(xs) : xs[i] \in tokens

\* bool(set(xs) & tokens)
Intersects(xs, tokens) == \E i \in 1..Len(xs) : xs[i] \in tokens

\* dict.get(key, default)
Get(data, key, default) == IF key \in DOMAIN data THEN data[key] ELSE default

(***************************************************************************)
(* Values for "no object yet".                                             *)
(***************************************************************************)
None == [none |-> TRUE]

(***************************************************************************)
(* _parse_input                                                            *)
(***************************************************************************)
ParseInput(data) ==
    [symptoms       |-> NormalizeList(Get(data, "symptoms", <<>>)),
     style_type     |-> Normalize(Get(data, "style_type", "")),
     wash_frequency |-> Normalize(Get(data, "wash_frequency", "")),
     product_use    |-> NormalizeList(Get(data, "product_use", <<>>)),
     known_issues   |-> NormalizeList(Get(data, "known_issues", <<>>)),
     image_uploaded |-> Get(data, "image_uploaded", FALSE)]

(***************************************************************************)
(* _calculate_confidence: percentage = (score / max_score) * 100.          *)
(* The comparisons are done on score * 100 against 70 * max_score and      *)
(* 40 * max_score, which agree with the float comparisons for every score  *)
(* and max_score of the rule table.                                        *)
(***************************************************************************)
\* variant: the middle band is spelled "medium"
CalculateConfidence_Medium(score, max_score) ==
    IF score * 100 >= 70 * max_score THEN "high"
    ELSE IF score * 100 >= 40 * max_score THEN "medium"
    ELSE "low"

CalculateConfidence(score, max_score) ==
    IF score * 100 >= 70 * max_score THEN "high"
    ELSE IF score * 100 >= 40 * max_score THEN "moderate"
    ELSE "low"

TriageResult(label, care_plan, referral, confidence, reasoning, severity) ==
    [condition_label   |-> label,
     care_plan_id      |-> care_plan,
     referral_required |-> referral,
     confidence_level  |-> confidence,
     reasoning         |-> reasoning,
     severity_score    |-> severity]

(***************************************************************************)
(* Condition rules.  Each XScore is the rule's accumulated score and each  *)
(* CheckX returns a TriageResult, or None when the rule does not match.    *)
(***************************************************************************)

\* ---- PRIORITY 1: _check_folliculitis ----
FolliculitisScore(data) ==
    LET has_bumps == AnyIn({"bumps", "pustules", "pimples", "small_bumps",
                            "infected_bumps"}, data.symptoms)
        has_pain == AnyIn({"pain", "painful", "tenderness", "tender", "sore",
                           "soreness"}, data.symptoms)
        has_protective_style == data.style_type \in PROTECTIVE_STYLES
        has_inflammation == AnyIn({"redness", "swelling", "hot", "warm",
                                   "inflamed"}, data.symptoms)
    IN  (IF has_bumps THEN 3 ELSE 0)
      + (IF has_pain THEN 3 ELSE 0)
      + (IF has_protective_style THEN 2 ELSE 0)
      + (IF has_inflammation THEN 2 ELSE 0)

\* variant: folliculitis is given the severity of the other referred rules
CheckFolliculitis_Severity7(data) ==
    IF FolliculitisScore(data) >= 5
    THEN TriageResult("folliculitis", CARE_PLANS["folliculitis"], TRUE,
             CalculateConfidence(FolliculitisScore(data), 10),
             <<"Bumps and pain with ", data.style_type,
               " styling suggest folliculitis. ",
               "This requires professional evaluation to prevent scarring.">>,
             7)
    ELSE None

\* variant: the folliculitis threshold is 6
CheckFolliculitis_Threshold6(data) ==
    IF FolliculitisScore(data) >= 6
    THEN TriageResult("folliculitis", CARE_PLANS["folliculitis"], TRUE,
             CalculateConfidence(FolliculitisScore(data), 10),
             <<"Bumps and pain with ", data.style_type,
               " styling suggest folliculitis. ",
               "This requires professional evaluation to prevent scarring.">>,
             8)
    ELSE None

CheckFolliculitis(data) ==
    LET score == FolliculitisScore(data)
    IN  IF score >= 5
        THEN TriageResult("folliculitis", CARE_PLANS["folliculitis"], TRUE,
                 CalculateConfidence(score, 10),
                 <<"Bumps and pain with ", data.style_type,
                   " styling suggest folliculitis. ",
                   "This requires professional evaluation to prevent scarring.">>,
                 8)
        ELSE None

\* ---- PRIORITY 2: _check_psoriasis ----
PsoriasisScore(data) ==
    LET has_scales == AnyIn({"scales", "scaling", "thick_scales",
                             "silvery_scales", "scale_patches", "plaques"},
                            data.symptoms)
        has_dryness == AnyIn({"dryness", "dry", "very_dry", "cracking"},
                             data.symptoms)
        known_psoriasis == AnyIn({"psoriasis"}, data.known_issues)
        has_itching == AnyIn({"itching", "itchy", "irritation"}, data.symptoms)
    IN  (IF known_psoriasis THEN 5 ELSE 0)
      + (IF has_scales THEN 4 ELSE 0)
      + (IF has_dryness THEN 2 ELSE 0)
      + (IF has_itching THEN 1 ELSE 0)

CheckPsoriasis(data) ==
    LET score == PsoriasisScore(data)
        known_psoriasis == AnyIn({"psoriasis"}, data.known_issues)
    IN  IF score >= 5
        THEN TriageResult("psoriasis", CARE_PLANS["psoriasis"], TRUE,
                 CalculateConfidence(score, 12),
                 IF known_psoriasis
                 THEN <<"Known psoriasis history with matching symptoms requires dermatologist management.">>
                 ELSE <<"Thick scaling and dryness patterns suggest psoriasis. Professional diagnosis recommended.">>,
                 7)
        ELSE None

\* ---- PRIORITY 3: _check_tension_damage ----
TensionHasBumps(data) == AnyIn({"bumps", "pustules", "pimples"}, data.symptoms)

TensionDamageScore(data) ==
    LET has_tenderness == AnyIn({"tenderness", "tender", "sore", "soreness",
                                 "pain", "painful"}, data.symptoms)
        has_protective_style == data.style_type \in PROTECTIVE_STYLES
        has_hair_loss == AnyIn({"hair_loss", "thinning", "bald_spots",
                                "edges_thinning", "breakage"}, data.symptoms)
        has_bumps == TensionHasBumps(data)
    IN  (IF has_tenderness /\ has_protective_style THEN 5 ELSE 0)
      + (IF has_hair_loss THEN 4 ELSE 0)
      + (IF has_tenderness /\ ~has_bumps THEN 2 ELSE 0)

\* variant: no bumps disqualification, threshold at the hair-loss weight
CheckTensionDamage_NoDisqualify(data) ==
    IF TensionDamageScore(data) >= 4
    THEN TriageResult("tension_damage", CARE_PLANS["tension_damage"], TRUE,
             CalculateConfidence(TensionDamageScore(data), 11),
             <<"Scalp tenderness with ", data.style_type,
               " suggests tension damage. ",
               "Consult a professional to prevent traction alopecia.">>,
             7)
    ELSE None

CheckTensionDamage(data) ==
    LET score == TensionDamageScore(data)
    IN  IF score >= 5 /\ ~TensionHasBumps(data)
        THEN TriageResult("tension_damage", CARE_PLANS["tension_damage"], TRUE,
                 CalculateConfidence(score, 11),
                 <<"Scalp tenderness with ", data.style_type,
                   " suggests tension damage. ",
                   "Consult a professional to prevent traction alopecia.">>,
                 7)
        ELSE None

\* variant: itching together with flaking scores like either one alone
SeborrheicDermatitisScore_Either(data) ==
    LET has_itching == AnyIn({"itching", "itchy", "irritation", "scratchy"},
                             data.symptoms)
        has_flaking == AnyIn({"flaking", "flakes", "dandruff", "white_flakes",
                              "yellow_flakes"}, data.symptoms)
        has_oily == AnyIn({"oily", "greasy", "oily_flakes"}, data.symptoms)
        has_redness == AnyIn({"redness"}, data.symptoms)
                       \/ AnyIn({"red"}, data.symptoms)
    IN  (IF has_itching \/ has_flaking THEN 2 ELSE 0)
      + (IF has_oily THEN 2 ELSE 0)
      + (IF has_redness THEN 1 ELSE 0)

\* ---- PRIORITY 4: _check_seborrheic_dermatitis ----
SeborrheicDermatitisScore(data) ==
    LET has_itching == AnyIn({"itching", "itchy", "irritation", "scratchy"},
                             data.symptoms)
        has_flaking == AnyIn({"flaking", "flakes", "dandruff", "white_flakes",
                              "yellow_flakes"}, data.symptoms)
        has_oily == AnyIn({"oily", "greasy", "oily_flakes"}, data.symptoms)
        has_redness == AnyIn({"redness"}, data.symptoms)
                       \/ AnyIn({"red"}, data.symptoms)
    IN  (IF has_itching /\ has_flaking THEN 5
         ELSE IF has_itching \/ has_flaking THEN 2 ELSE 0)
      + (IF has_oily THEN 2 ELSE 0)
      + (IF has_redness THEN 1 ELSE 0)

CheckSeborrheicDermatitis(data) ==
    LET score == SeborrheicDermatitisScore(data)
        needs_referral == AnyIn({"severe", "worsening", "bleeding", "crusting"},
                                data.symptoms)
                          \/ AnyIn({"eczema"}, data.known_issues)
    IN  IF score >= 4
        THEN TriageResult("seborrheic_dermatitis", CARE_PLANS["seborrheic_dermatitis"], needs_referral,
                 CalculateConfidence(score, 10),
                 <<"Itching and flaking are classic signs of seborrheic dermatitis. ",
                   "Often manageable with medicated shampoos.">>,
                 IF ~needs_referral THEN 4 ELSE 6)
        ELSE None

\* ---- PRIORITY 5: _check_contact_dermatitis ----
ContactDermatitisScore(data) ==
    LET has_itching == AnyIn({"itching", "itchy", "burning"}, data.symptoms)
        has_redness == AnyIn({"redness", "red", "inflamed"}, data.symptoms)
        has_bumps == AnyIn({"bumps", "rash", "hives"}, data.symptoms)
        uses_heavy_products == Intersects(data.product_use, HEAVY_PRODUCTS)
        recent_change == AnyIn({"new_product", "recent_reaction",
                                "sudden_onset"}, data.symptoms)
    IN  (IF has_itching /\ has_redness THEN 3 ELSE 0)
      + (IF has_bumps /\ ~AnyIn({"pustules", "pus"}, data.symptoms)
         THEN 2 ELSE 0)
      + (IF uses_heavy_products \/ recent_change THEN 2 ELSE 0)

CheckContactDermatitis(data) ==
    LET score == ContactDermatitisScore(data)
    IN  IF score >= 4
        THEN TriageResult("contact_dermatitis", CARE_PLANS["contact_dermatitis"], FALSE,
                 CalculateConfidence(score, 7),
                 <<"Symptoms suggest possible contact dermatitis from hair products. ",
                   "Consider eliminating products one at a time.">>,
                 4)
        ELSE None

\* ---- PRIORITY 6: _check_scalp_acne ----
ScalpAcneScore(data) ==
    LET has_bumps == AnyIn({"bumps", "pimples", "small_bumps"}, data.symptoms)
        has_oily == AnyIn({"oily", "greasy"}, data.symptoms)
        uses_heavy_products == Intersects(data.product_use, HEAVY_PRODUCTS)
        no_pain == ~AnyIn({"pain", "painful", "tender", "sore"}, data.symptoms)
        not_protective_style == data.style_type \notin PROTECTIVE_STYLES
    IN  (IF has_bumps /\ no_pain THEN 3 ELSE 0)
      + (IF has_oily THEN 2 ELSE 0)
      + (IF uses_heavy_products THEN 2 ELSE 0)
      + (IF not_protective_style THEN 1 ELSE 0)

\* variant: the scalp-acne result carries the folliculitis care plan
CheckScalpAcne_WrongPlan(data) ==
    IF ScalpAcneScore(data) >= 4
    THEN TriageResult("scalp_acne", CARE_PLANS["folliculitis"], FALSE,
             CalculateConfidence(ScalpAcneScore(data), 8),
             <<"Bumps and product buildup suggest scalp acne. ",
               "Try clarifying shampoo and reducing heavy products.">>,
             3)
    ELSE None

CheckScalpAcne(data) ==
    LET score == ScalpAcneScore(data)
    IN  IF score >= 4
        THEN TriageResult("scalp_acne", CARE_PLANS["scalp_acne"], FALSE,
                 CalculateConfidence(score, 8),
                 <<"Bumps and product buildup suggest scalp acne. ",
                   "Try clarifying shampoo and reducing heavy products.">>,
                 3)
        ELSE None

\* ---- PRIORITY 7: _check_product_buildup ----
ProductBuildupScore(data) ==
    LET has_flaking == AnyIn({"flaking", "flakes", "buildup"}, data.symptoms)
        uses_heavy_products == Intersects(data.product_use, HEAVY_PRODUCTS)
        low_wash == data.wash_frequency \in LOW_WASH_FREQUENCIES
        has_itching == AnyIn({"itching"}, data.symptoms)
                       \/ AnyIn({"itchy"}, data.symptoms)
    IN  (IF has_flaking /\ ~has_itching THEN 3 ELSE 0)
      + (IF uses_heavy_products /\ low_wash THEN 3 ELSE 0)
      + (IF Len(data.product_use) >= 3 THEN 1 ELSE 0)

CheckProductBuildup(data) ==
    LET score == ProductBuildupScore(data)
    IN  IF score >= 4
        THEN TriageResult("product_buildup", CARE_PLANS["product_buildup"], FALSE,
                 CalculateConfidence(score, 7),
                 <<"Product buildup from styling products. ",
                   "Consider clarifying treatments and adjusting wash routine.">>,
                 2)
        ELSE None

\* ---- PRIORITY 8: _check_dry_scalp ----
DryScalpScore(data) ==
    LET has_dryness == AnyIn({"dryness", "dry", "tight", "flaking"},
                             data.symptoms)
        low_wash == data.wash_frequency \in LOW_WASH_FREQUENCIES
        minimal_symptoms == Len(data.symptoms) <= 2
    IN  (IF has_dryness THEN 3 ELSE 0)
      + (IF low_wash /\ ~(\E i \in 1..Len(data.product_use) :
                             HasSubstringOil(data.product_use[i]))
         THEN 2 ELSE 0)
      + (IF minimal_symptoms THEN 1 ELSE 0)

\* variant: dry scalp takes its confidence from the shared calculator
CheckDryScalp_Calculated(data) ==
    IF DryScalpScore(data) >= 3
    THEN TriageResult("dry_scalp", CARE_PLANS["dry_scalp"], FALSE,
             CalculateConfidence(DryScalpScore(data), 6),
             <<"Dry scalp symptoms. Increase moisture with oils and gentle cleansing.">>,
             2)
    ELSE None

CheckDryScalp(data) ==
    LET score == DryScalpScore(data)
    IN  IF score >= 3
        THEN TriageResult("dry_scalp", CARE_PLANS["dry_scalp"], FALSE, "moderate",
                 <<"Dry scalp symptoms. Increase moisture with oils and gentle cleansing.">>,
                 2)
        ELSE None

\* variant: the fallback reports moderate confidence
CreateUnclearResult_Moderate(data) ==
    TriageResult("unclear", CARE_PLANS["unclear"], TRUE, "moderate",
        <<"Symptoms don't clearly match a single condition. ",
          "Professional evaluation recommended for accurate diagnosis.">>,
        5)

\* ---- _create_unclear_result ----
CreateUnclearResult(data) ==
    TriageResult("unclear", CARE_PLANS["unclear"], TRUE, "low",
        <<"Symptoms don't clearly match a single condition. ",
          "Professional evaluation recommended for accurate diagnosis.">>,
        5)

(***************************************************************************)
(* __init__ and _run_decision_tree                                         *)
(***************************************************************************)
\* variant: the seborrheic dermatitis rule is registered first
InitialRuleChain_SeborrheicFirst ==
    <<"_check_seborrheic_dermatitis", "_check_folliculitis", "_check_psoriasis",
      "_check_tension_damage", "_check_contact_dermatitis",
      "_check_scalp_acne", "_check_product_buildup", "_check_dry_scalp">>

\* self.rule_chain as built by __init__
InitialRuleChain ==
    <<"_check_folliculitis", "_check_psoriasis", "_check_tension_damage",
      "_check_seborrheic_dermatitis", "_check_contact_dermatitis",
      "_check_scalp_acne", "_check_product_buildup", "_check_dry_scalp">>

\* rule_func(input_data)
CallRule(rule_func, data) ==
    CASE rule_func = "_check_folliculitis"          -> CheckFolliculitis(data)
      [] rule_func = "_check_psoriasis"             -> CheckPsoriasis(data)
      [] rule_func = "_check_tension_damage"        -> CheckTensionDamage(data)
      [] rule_func = "_check_seborrheic_dermatitis" -> CheckSeborrheicDermatitis(data)
      [] rule_func = "_check_contact_dermatitis"    -> CheckContactDermatitis(data)
      [] rule_func = "_check_scalp_acne"            -> CheckScalpAcne(data)
      [] rule_func = "_check_product_buildup"       -> CheckProductBuildup(data)
      [] rule_func = "_check_dry_scalp"             -> CheckDryScalp(data)

\* for rule_func in chain: result = rule_func(data); if result: return result
\* return self._create_unclear_result(data)
RECURSIVE RunDecisionTree(_, _)
RunDecisionTree(chain, data) ==
    IF chain = <<>>
    THEN CreateUnclearResult(data)
    ELSE LET r == CallRule(Head(chain), data)
         IN  IF r # None THEN r ELSE RunDecisionTree(Tail(chain), data)

(***************************************************************************)
(* _apply_referral_rules                                                   *)
(***************************************************************************)
\* variant: fever is missing from the trigger list
SevereSymptomTokens_NoFever ==
    {"bleeding", "pus", "oozing", "crusting", "severe", "worsening",
     "spreading"}

SevereSymptomTokens ==
    {"bleeding", "pus", "oozing", "crusting", "severe", "worsening",
     "spreading", "fever"}

ChronicConditionTokens == {"psoriasis", "eczema", "lupus", "autoimmune"}

UrgentNotice == " URGENT: Severe symptoms require immediate professional evaluation."
MonitoringNotice == " Note: Known condition warrants professional monitoring."

Max(a, b) == IF a >= b THEN a ELSE b

\* variant: the hair-loss-with-pain trigger is left out
SevereTrigger_SymptomsOnly(data) == AnyIn(SevereSymptomTokens, data.symptoms)

SevereTrigger(data) ==
    LET severe_symptoms == AnyIn(SevereSymptomTokens, data.symptoms)
        hair_loss_with_pain ==
            /\ AnyIn({"hair_loss", "bald_spots"}, data.symptoms)
            /\ AnyIn({"pain", "tenderness"}, data.symptoms)
    IN  severe_symptoms \/ hair_loss_with_pain

KnownChronicCondition(data) == AnyIn(ChronicConditionTokens, data.known_issues)

\* variant: the known-chronic check does not test referral_required
ApplyReferralRules_Unguarded(res, data) ==
    LET r1 == IF SevereTrigger(data)
              THEN [res EXCEPT !.referral_required = TRUE,
                               !.severity_score = Max(res.severity_score, 8),
                               !.reasoning = Append(res.reasoning, UrgentNotice)]
              ELSE res
    IN  IF KnownChronicCondition(data)
        THEN [r1 EXCEPT !.referral_required = TRUE,
                        !.reasoning = Append(r1.reasoning, MonitoringNotice)]
        ELSE r1

\* variant: the urgent notice replaces the rule's reasoning
ApplyReferralRules_ReplaceReasoning(res, data) ==
    LET r1 == IF SevereTrigger(data)
              THEN [res EXCEPT !.referral_required = TRUE,
                               !.severity_score = Max(res.severity_score, 8),
                               !.reasoning = <<UrgentNotice>>]
              ELSE res
    IN  IF KnownChronicCondition(data) /\ ~r1.referral_required
        THEN [r1 EXCEPT !.referral_required = TRUE,
                        !.reasoning = Append(r1.reasoning, MonitoringNotice)]
        ELSE r1

ApplyReferralRules(res, data) ==
    LET r1 == IF SevereTrigger(data)
              THEN [res EXCEPT !.referral_required = TRUE,
                               !.severity_score = Max(res.severity_score, 8),
                               !.reasoning = Append(res.reasoning, UrgentNotice)]
              ELSE res
    IN  IF KnownChronicCondition(data) /\ ~r1.referral_required
        THEN [r1 EXCEPT !.referral_required = TRUE,
                        !.reasoning = Append(r1.reasoning, MonitoringNotice)]
        ELSE r1

(***************************************************************************)
(* _format_output                                                          *)
(***************************************************************************)
FormatOutput(res) ==
    [condition_label   |-> res.condition_label,
     care_plan_id      |-> res.care_plan_id,
     referral_required |-> res.referral_required,
     confidence_level  |-> res.confidence_level,
     reasoning         |-> res.reasoning,
     severity_score    |-> res.severity_score]

(***************************************************************************)
(* The mappings submitted to classify().                                   *)
(***************************************************************************)
SymptomUniverse ==
    <<"bumps", "pain", "tenderness", "hair_loss", "itching", "flaking",
      "dryness", "redness", "scales", "oily", " Bleeding">>
\* product lists: none, heavy, oil, three light products, three with both
ProductLists ==
    {<<>>, <<"GEL ">>, <<"oil">>, <<"shampoo", "conditioner", "leave_in">>,
     <<"oil", "GEL ", "shampoo">>}
KnownIssueLists == {<<>>, <<"Eczema">>, <<"psoriasis">>}
StyleTypes == {"Braids ", "none"}
WashFrequencies == {"weekly", "Monthly"}

\* the lists of at most maxlen tokens of universe, in the universe's order
\* (repetitions included)
ListsOver(universe, maxlen) ==
    UNION { { [i \in 1..len |-> universe[ix[i]]] :
                ix \in { f \in [1..len -> 1..Len(universe)] :
                           \A i \in 1..(len - 1) : f[i] <= f[i + 1] } } :
            len \in 0..maxlen }

Mapping(symptoms, style, wash, products, known) ==
    [symptoms       |-> symptoms,
     style_type     |-> style,
     wash_frequency |-> wash,
     product_use    |-> products,
     known_issues   |-> known,
     image_uploaded |-> FALSE]

GeneratedInputs ==
    { Mapping(sy, st, w, p, k) :
        sy \in ListsOver(SymptomUniverse, MaxSymptoms),
        st \in StyleTypes,
        w \in WashFrequencies,
        p \in ProductLists,
        k \in KnownIssueLists }

\* example mappings: the classify_symptoms docstring, the triage endpoint
\* docstring, and further quiz answers over the same vocabulary
Example1 == Mapping(<<"itching", "flaking">>, "natural", "weekly", <<"oil">>, <<>>)
Example2 == Mapping(<<"bumps", "pain">>, "braids", "weekly", <<>>, <<>>)
Example3 == Mapping(<<"dryness">>, "none", "monthly", <<>>, <<>>)
Example4 == Mapping(<<"bleeding">>, "none", "weekly", <<>>, <<>>)
ExampleTension ==
    Mapping(<<"tenderness", "hair_loss", "bumps">>, "braids", "weekly", <<>>, <<>>)
ExampleEndpoint ==
    Mapping(<<"itching", "flaking">>, "braids", "weekly", <<"oil", "gel">>, <<"eczema">>)
ExampleSparse == [symptoms |-> <<"flaking", "hair_loss">>]

ExampleInputs ==
    {Example1, Example2, Example3, Example4, ExampleTension, ExampleEndpoint,
     ExampleSparse}

Inputs == GeneratedInputs \cup ExampleInputs

\* the symptom tokens a client reports when a condition escalates
EscalationTokens ==
    {"bleeding", "pus", "oozing", "crusting", "severe", "worsening",
     "spreading", "fever"}

(***************************************************************************)
(* State machine.                                                          *)
(***************************************************************************)
NoPrev == [input |-> None, output |-> None]

\* one client thread has called classify(data) on engine 1
Init ==
    /\ rule_chain = [e \in Engines |-> InitialRuleChain]
    /\ pc = [c \in Callers |-> IF c = 1 THEN "called" ELSE "off"]
    /\ engine = [c \in Callers |-> 1]
    /\ \E data \in Inputs :
          input_data = [c \in Callers |-> IF c = 1 THEN data ELSE None]
    /\ triage_input = [c \in Callers |-> None]
    /\ result = [c \in Callers |-> None]
    /\ output = [c \in Callers |-> None]
    /\ prev = [c \in Callers |-> NoPrev]
    /\ rel = [c \in Callers |-> "first"]
    /\ response = [c \in Callers |-> None]

\* two client threads have each called classify() on some engine
InitConc ==
    /\ rule_chain = [e \in Engines |-> InitialRuleChain]
    /\ pc = [c \in Callers |-> "called"]
    /\ engine \in [Callers -> Engines]
    /\ input_data \in [Callers -> ExampleInputs]
    /\ triage_input = [c \in Callers |-> None]
    /\ result = [c \in Callers |-> None]
    /\ output = [c \in Callers |-> None]
    /\ prev = [c \in Callers |-> NoPrev]
    /\ rel = [c \in Callers |-> "first"]
    /\ response = [c \in Callers |-> None]

\* triage_input = self._parse_input(input_data)
Parse(c) ==
    /\ pc[c] = "called"
    /\ triage_input' = [triage_input EXCEPT ![c] = ParseInput(input_data[c])]
    /\ pc' = [pc EXCEPT ![c] = "parsed"]
    /\ UNCHANGED <<rule_chain, engine, input_data, result, output, prev, rel, response>>

\* variant: the loop takes the rules off self.rule_chain as it tries them
DecisionTree_Consuming(c) ==
    /\ pc[c] = "parsed"
    /\ result' = [result EXCEPT
                    ![c] = RunDecisionTree(rule_chain[engine[c]], triage_input[c])]
    /\ rule_chain' = [rule_chain EXCEPT
                        ![engine[c]] = IF @ = <<>> THEN @ ELSE Tail(@)]
    /\ pc' = [pc EXCEPT ![c] = "matched"]
    /\ UNCHANGED <<engine, input_data, triage_input, output, prev, rel, response>>

\* result = self._run_decision_tree(triage_input)
DecisionTree(c) ==
    /\ pc[c] = "parsed"
    /\ result' = [result EXCEPT
                    ![c] = RunDecisionTree(rule_chain[engine[c]], triage_input[c])]
    /\ pc' = [pc EXCEPT ![c] = "matched"]
    /\ UNCHANGED <<rule_chain, engine, input_data, triage_input, output, prev, rel, response>>

\* result = self._apply_referral_rules(result, triage_input)
ReferralRules(c) ==
    /\ pc[c] = "matched"
    /\ result' = [result EXCEPT
                    ![c] = ApplyReferralRules(result[c], triage_input[c])]
    /\ pc' = [pc EXCEPT ![c] = "overridden"]
    /\ UNCHANGED <<rule_chain, engine, input_data, triage_input, output, prev, rel, response>>

\* return self._format_output(result)
Return(c) ==
    /\ pc[c] = "overridden"
    /\ output' = [output EXCEPT ![c] = FormatOutput(result[c])]
    /\ pc' = [pc EXCEPT ![c] = "done"]
    /\ UNCHANGED <<rule_chain, engine, input_data, triage_input, result, prev, rel, response>>

\* the caller's next classify(data) call, on engine e
NextCall(c, data, e, how) ==
    /\ pc[c] = "done"
    /\ rel[c] = "first"
    /\ prev' = [prev EXCEPT ![c] = [input |-> input_data[c], output |-> output[c]]]
    /\ input_data' = [input_data EXCEPT ![c] = data]
    /\ engine' = [engine EXCEPT ![c] = e]
    /\ rel' = [rel EXCEPT ![c] = how]
    /\ pc' = [pc EXCEPT ![c] = "called"]
    /\ triage_input' = [triage_input EXCEPT ![c] = None]
    /\ result' = [result EXCEPT ![c] = None]
    /\ output' = [output EXCEPT ![c] = None]
    /\ UNCHANGED <<rule_chain, response>>

\* the caller classifies the same mapping again, on the same or another engine
Reclassify(c) ==
    \E e \in Engines : NextCall(c, input_data[c], e, "same")

\* the caller adds a severe-symptom token to a non-referred mapping and
\* classifies it again
AddSevereSymptom(c) ==
    /\ pc[c] = "done"
    /\ output[c].referral_required = FALSE
    /\ \E t \in EscalationTokens :
          NextCall(c,
                   [s \in DOMAIN input_data[c] |->
                       IF s = "symptoms"
                       THEN Append(input_data[c].symptoms, t)
                       ELSE input_data[c][s]],
                   engine[c], "severe_added")

\* the list fields of a quiz mapping
ListFields == {"symptoms", "product_use", "known_issues"}

\* data with data[key] = val
WithField(data, key, val) ==
    [s \in DOMAIN data \cup {key} |-> IF s = key THEN val ELSE data[s]]

Reverse(xs) == [i \in 1..Len(xs) |-> xs[Len(xs) + 1 - i]]

\* the caller submits the same answers with every list in the opposite order
Reorder(c) ==
    /\ pc[c] = "done"
    /\ LET data == [s \in DOMAIN input_data[c] |->
                       IF s \in ListFields
                       THEN Reverse(input_data[c][s])
                       ELSE input_data[c][s]]
       IN  /\ data # input_data[c]
           /\ NextCall(c, data, engine[c], "reordered")

\* the caller submits the same answers with the first token of one list
\* given twice
RepeatToken(c) ==
    /\ pc[c] = "done"
    /\ \E f \in ListFields \cap DOMAIN input_data[c] :
          /\ input_data[c][f] # <<>>
          /\ NextCall(c,
                      WithField(input_data[c], f,
                                Append(input_data[c][f], input_data[c][f][1])),
                      engine[c], "repeated")

\* tokens that occur in no token list of the rules and in no fact set
UnrecognizedTokens ==
    [symptoms     |-> {"headache"},
     product_use  |-> {"mousse"},
     known_issues |-> {"diabetes"}]

\* the caller adds an unrecognized token to one list and classifies again
AddUnrecognizedToken(c) ==
    /\ pc[c] = "done"
    /\ \E f \in ListFields :
          \E t \in UnrecognizedTokens[f] :
             NextCall(c,
                      WithField(input_data[c], f,
                                Append(Get(input_data[c], f, <<>>), t)),
                      engine[c], "unrecognized_added")

Next ==
    \E c \in Callers :
        \/ Parse(c)
        \/ DecisionTree(c)
        \/ ReferralRules(c)
        \/ Return(c)
        \/ Reclassify(c)
        \/ AddSevereSymptom(c)

Spec == Init /\ [][Next]_vars

SpecConc == InitConc /\ [][Next]_vars

\* a client that varies the spelling of its answers
NextVariants ==
    \E c \in Callers :
        \/ Parse(c)
        \/ DecisionTree(c)
        \/ ReferralRules(c)
        \/ Return(c)
        \/ Reorder(c)
        \/ RepeatToken(c)
        \/ AddUnrecognizedToken(c)

SpecVariants == Init /\ [][NextVariants]_vars

(***************************************************************************)
(* The triage endpoint (src/api_server.py): request.get_json(), the        *)
(* validate_triage_input decorator, classify_symptoms and the response.    *)
(* A JSON value is a record tagged with its type, so that isinstance and   *)
(* a missing .lower() can be told apart; a JSON object is the function     *)
(* from its keys to its values.                                            *)
(***************************************************************************)
JStr(s) == [str |-> s]
JNum(n) == [num |-> n]
JBool(b) == [bool |-> b]
JList(xs) == [list |-> xs]
JObj(fields) == [obj |-> fields]
JNull == [null |-> TRUE]

IsStr(v) == DOMAIN v = {"str"}
IsNum(v) == DOMAIN v = {"num"}
IsList(v) == DOMAIN v = {"list"}
IsObj(v) == DOMAIN v = {"obj"}

VALID_STYLE_TYPES ==
    {"natural", "braids", "cornrows", "weave", "extensions", "locs",
     "twists", "faux_locs", "crochet", "tight_ponytail", "relaxed",
     "permed", "none"}

VALID_WASH_FREQUENCIES ==
    {"daily", "every_other_day", "twice_weekly", "weekly",
     "biweekly", "monthly", "less_than_monthly"}

\* bool(data): None, {}, [], "", 0 and False are falsy
Truthy(v) ==
    CASE v = None   -> FALSE
      [] v = JNull  -> FALSE
      [] IsObj(v)   -> DOMAIN v.obj # {}
      [] IsList(v)  -> Len(v.list) > 0
      [] IsStr(v)   -> v.str # ""
      [] IsNum(v)   -> v.num # 0
      [] OTHER      -> v.bool

\* field in data, for a dict or a list
Has(v, field) ==
    IF IsObj(v) THEN field \in DOMAIN v.obj
    ELSE \E i \in 1..Len(v.list) : v.list[i] = JStr(field)

RequiredFields == <<"symptoms", "style_type", "wash_frequency">>

\* [field for field in required if field not in data]
Missing(v) == SelectSeq(RequiredFields, LAMBDA f : ~Has(v, f))

ErrorBody(message) == [error |-> message, status |-> "error"]

Reject(message) == [kind |-> "reject", error |-> message]
Fault == [kind |-> "fault"]
Pass == [kind |-> "ok"]

\* the body of decorated_function, for a payload get_json() returned:
\* a 400 answer, an exception that leaves the decorator, or the call of f
Validation(data) ==
    IF ~Truthy(data) THEN Reject(<<"No JSON payload provided">>)
    ELSE IF IsNum(data) THEN Fault
    ELSE IF Missing(data) # <<>>
         THEN Reject(<<"Missing required fields: ", Missing(data)>>)
    ELSE IF ~IsObj(data) THEN Fault
    ELSE IF ~IsList(data.obj["symptoms"])
         THEN Reject(<<"Symptoms must be a non-empty array">>)
    ELSE IF Len(data.obj["symptoms"].list) = 0
         THEN Reject(<<"Symptoms must be a non-empty array">>)
    ELSE IF ~IsStr(data.obj["style_type"]) THEN Fault
    ELSE IF Lower(data.obj["style_type"].str) \notin VALID_STYLE_TYPES
         THEN Reject(<<"Invalid style_type. Must be one of: ", VALID_STYLE_TYPES>>)
    ELSE IF ~IsStr(data.obj["wash_frequency"]) THEN Fault
    ELSE IF Lower(data.obj["wash_frequency"].str) \notin VALID_WASH_FREQUENCIES
         THEN Reject(<<"Invalid wash_frequency. Must be one of: ",
                       VALID_WASH_FREQUENCIES>>)
    ELSE Pass

\* iterating a str yields its characters
Chars(s) ==
    CASE s = "gel" -> <<"g", "e", "l">>
      [] s = ""    -> <<>>

\* [x.lower().strip() for x in v] raises for a number or null (not iterable)
\* and for an element without .lower()
ListFault(v) ==
    IF IsList(v) THEN \E i \in 1..Len(v.list) : ~IsStr(v.list[i])
    ELSE ~IsStr(v)

\* _parse_input raises AttributeError or TypeError
ParseFault(d) ==
    \/ \E k \in ListFields \cap DOMAIN d : ListFault(d[k])
    \/ \E k \in {"style_type", "wash_frequency"} \cap DOMAIN d : ~IsStr(d[k])

ToList(v) ==
    IF IsList(v) THEN [i \in 1..Len(v.list) |-> v.list[i].str] ELSE Chars(v.str)

\* the python values of a JSON object whose fields _parse_input can read
ToMapping(d) ==
    [k \in DOMAIN d |->
        IF k \in ListFields THEN ToList(d[k])
        ELSE IF k = "image_uploaded" THEN d[k].bool
        ELSE d[k].str]

(***************************************************************************)
(* Request bodies: every combination of the field values below, the        *)
(* payloads that are not JSON objects, and a request without JSON.         *)
(***************************************************************************)
Absent == [absent |-> TRUE]

SymptomsValues ==
    {Absent, JNull, JStr("itching"), JList(<<>>),
     JList(<<JStr("itching"), JStr("flaking")>>),
     JList(<<JStr(" Bleeding")>>),
     JList(<<JNum(5)>>),
     JList(<<JStr("itching"), JNull>>)}

StyleTypeValues ==
    {Absent, JNull, JNum(3), JStr("braids"), JStr("Braids "), JStr("none"),
     JStr("mohawk")}

WashFrequencyValues ==
    {Absent, JNum(7), JStr("weekly"), JStr("Monthly"), JStr("sometimes")}

ProductUseValues ==
    {Absent, JNull, JStr("gel"), JList(<<JStr("oil"), JStr("gel")>>),
     JList(<<JNum(1)>>)}

KnownIssuesValues == {Absent, JList(<<JStr("eczema")>>), JList(<<JNull>>)}

ImageUploadedValues == {Absent, JBool(FALSE)}

Body(sy, st, w, p, k, im) ==
    LET all == [symptoms |-> sy, style_type |-> st, wash_frequency |-> w,
                product_use |-> p, known_issues |-> k, image_uploaded |-> im]
    IN  JObj([f \in {g \in DOMAIN all : all[g] # Absent} |-> all[f]])

\* the request of the triage docstring
DocRequest ==
    Body(JList(<<JStr("itching"), JStr("flaking")>>), JStr("braids"),
         JStr("weekly"), JList(<<JStr("oil"), JStr("gel")>>),
         JList(<<JStr("eczema")>>), JBool(FALSE))

Requests ==
    { Body(sy, st, w, p, k, im) :
        sy \in SymptomsValues, st \in StyleTypeValues,
        w \in WashFrequencyValues, p \in ProductUseValues,
        k \in KnownIssuesValues, im \in ImageUploadedValues }
    \cup {None, JNull, JNum(0), JNum(5), JList(<<>>), JList(<<JNum(1)>>),
          JList(<<JStr("symptoms"), JStr("style_type"), JStr("wash_frequency")>>)}

\* datetime.utcnow().isoformat()
Timestamps == {"2026-01-01T00:00:00", "2026-01-01T00:00:01"}

\* a request thread holds the payload of a POST /api/v1/triage
InitApi ==
    /\ rule_chain = [e \in Engines |-> InitialRuleChain]
    /\ pc = [c \in Callers |-> IF c = 1 THEN "received" ELSE "off"]
    /\ engine = [c \in Callers |-> 1]
    /\ \E data \in Requests :
          input_data = [c \in Callers |-> IF c = 1 THEN data ELSE None]
    /\ triage_input = [c \in Callers |-> None]
    /\ result = [c \in Callers |-> None]
    /\ output = [c \in Callers |-> None]
    /\ prev = [c \in Callers |-> NoPrev]
    /\ rel = [c \in Callers |-> "first"]
    /\ response = [c \in Callers |-> None]

\* validate_triage_input.  Without a JSON body get_json() returns None or
\* aborts with 415, depending on the Flask release; an exception that leaves
\* the decorator is answered by the 500 handler, or by the debugger page
\* when the app runs with debug=True.
Validate(c) ==
    /\ pc[c] = "received"
    /\ LET data == input_data[c]
           v == Validation(data)
       IN  \/ /\ v.kind = "ok"
              /\ pc' = [pc EXCEPT ![c] = "validated"]
              /\ UNCHANGED response
           \/ /\ v.kind = "reject"
              /\ pc' = [pc EXCEPT ![c] = "responded"]
              /\ response' = [response EXCEPT
                    ![c] = [status_code |-> 400, body |-> ErrorBody(v.error)]]
           \/ /\ data = None
              /\ pc' = [pc EXCEPT ![c] = "responded"]
              /\ response' = [response EXCEPT
                    ![c] = [status_code |-> 415,
                            body |-> [html |-> "Unsupported Media Type"]]]
           \/ /\ v.kind = "fault"
              /\ pc' = [pc EXCEPT ![c] = "responded"]
              /\ \/ response' = [response EXCEPT
                       ![c] = [status_code |-> 500,
                               body |-> ErrorBody(<<"Internal server error">>)]]
                 \/ response' = [response EXCEPT
                       ![c] = [status_code |-> 500,
                               body |-> [html |-> "debugger"]]]
    /\ UNCHANGED <<rule_chain, engine, input_data, triage_input, result, output,
                   prev, rel>>

\* classify_symptoms(input_data): engine = MelaScalpTriageEngine();
\* engine.classify(input_data)
Invoke(c) ==
    /\ pc[c] = "validated"
    /\ \E e \in Engines :
          /\ engine' = [engine EXCEPT ![c] = e]
          /\ rule_chain' = [rule_chain EXCEPT ![e] = InitialRuleChain]
    /\ pc' = [pc EXCEPT ![c] = "called"]
    /\ UNCHANGED <<input_data, triage_input, result, output, prev, rel, response>>

\* triage_input = self._parse_input(input_data), on the request's JSON object
ParseRequest(c) ==
    /\ pc[c] = "called"
    /\ IF ParseFault(input_data[c].obj)
       THEN /\ pc' = [pc EXCEPT ![c] = "raised"]
            /\ UNCHANGED triage_input
       ELSE /\ triage_input' = [triage_input EXCEPT
                                   ![c] = ParseInput(ToMapping(input_data[c].obj))]
            /\ pc' = [pc EXCEPT ![c] = "parsed"]
    /\ UNCHANGED <<rule_chain, engine, input_data, result, output, prev, rel, response>>

\* result.update({...}); return jsonify(result), 200
Respond(c) ==
    /\ pc[c] = "done"
    /\ \E t \in Timestamps :
          response' = [response EXCEPT
             ![c] = [status_code |-> 200,
                     body |-> [f \in DOMAIN output[c]
                                     \cup {"status", "timestamp", "api_version"} |->
                                 CASE f = "status"      -> "success"
                                   [] f = "timestamp"   -> t
                                   [] f = "api_version" -> "1.0.0"
                                   [] OTHER             -> output[c][f]]]]
    /\ pc' = [pc EXCEPT ![c] = "responded"]
    /\ UNCHANGED <<rule_chain, engine, input_data, triage_input, result, output,
                   prev, rel>>

\* except Exception: return jsonify({...}), 500
RespondError(c) ==
    /\ pc[c] = "raised"
    /\ response' = [response EXCEPT
          ![c] = [status_code |-> 500,
                  body |-> ErrorBody(<<"Internal server error during classification">>)]]
    /\ pc' = [pc EXCEPT ![c] = "responded"]
    /\ UNCHANGED <<rule_chain, engine, input_data, triage_input, result, output,
                   prev, rel>>

NextApi ==
    \E c \in Callers :
        \/ Validate(c)
        \/ Invoke(c)
        \/ ParseRequest(c)
        \/ DecisionTree(c)
        \/ ReferralRules(c)
        \/ Return(c)
        \/ Respond(c)
        \/ RespondError(c)

SpecApi == InitApi /\ [][NextApi]_vars

(***************************************************************************)
(* Properties.                                                             *)
(***************************************************************************)
Done(c) == pc[c] = "done"

\* the normalized symptom tokens of caller c's call, as a set
SymptomSet(c) ==
    {triage_input[c].symptoms[i] : i \in 1..Len(triage_input[c].symptoms)}

\* the normalized known issues of caller c's call, as a set
KnownIssueSet(c) ==
    {triage_input[c].known_issues[i] : i \in 1..Len(triage_input[c].known_issues)}

Last(seq) == seq[Len(seq)]

\* C1: every record returned by classify has a condition_label among the 9
\* enumerated labels and the care_plan_id that CARE_PLANS gives for that label.
C1_LabelAndCarePlan ==
    \A c \in Callers :
        Done(c) =>
            /\ output[c].condition_label \in
                 {"seborrheic_dermatitis", "folliculitis", "psoriasis",
                  "scalp_acne", "tension_damage", "product_buildup",
                  "dry_scalp", "contact_dermatitis", "unclear"}
            /\ output[c].care_plan_id = CARE_PLANS[output[c].condition_label]

C1_Witness ==
    \E c \in Callers :
        /\ Done(c)
        /\ output[c].condition_label = "scalp_acne"
        /\ output[c].care_plan_id = "CP-004"

\* the severe-symptom trigger in the words of C2
C2_Triggered(c) ==
    \/ SymptomSet(c) \cap {"bleeding", "pus", "oozing", "crusting", "severe",
                           "worsening", "spreading", "fever"} # {}
    \/ /\ SymptomSet(c) \cap {"hair_loss", "bald_spots"} # {}
       /\ SymptomSet(c) \cap {"pain", "tenderness"} # {}

\* C2: whenever the symptoms contain a severe-symptom token, or a hair-loss
\* token together with pain or tenderness, the returned record has
\* referral_required = TRUE, severity_score >= 8 and the urgent notice as the
\* last sentence of its reasoning, whichever rule (or the fallback) matched.
C2_SevereOverride ==
    \A c \in Callers :
        (Done(c) /\ C2_Triggered(c)) =>
            /\ output[c].referral_required = TRUE
            /\ output[c].severity_score >= 8
            /\ Last(output[c].reasoning) = UrgentNotice

C2_Witness ==
    \E c \in Callers :
        /\ Done(c)
        /\ {"hair_loss", "pain"} \subseteq SymptomSet(c)
        /\ SymptomSet(c) \cap {"bleeding"} = {}
        /\ output[c].condition_label = "tension_damage"
        /\ output[c].severity_score = 8
        /\ Last(output[c].reasoning) = UrgentNotice

\* the step of caller c that runs _apply_referral_rules
ReferralStep(c) == pc[c] = "matched" /\ pc'[c] = "overridden"

C3_Known(c) ==
    KnownIssueSet(c) \cap {"psoriasis", "eczema", "lupus", "autoimmune"} # {}

\* the known-chronic check appended its notice in this step
C3_Acted(c) ==
    /\ Len(result'[c].reasoning) > Len(result[c].reasoning)
    /\ Last(result'[c].reasoning) = MonitoringNotice

\* C3: a known chronic condition always ends in referral_required = TRUE; the
\* known-chronic check acts exactly when the flag is still FALSE after the
\* severe-symptom check (candidate not referred and no severe trigger), and
\* then sets the flag, appends the monitoring notice and leaves severity_score.
C3_KnownChronic ==
    [][\A c \in Callers :
          /\ (pc'[c] = "done" /\ C3_Known(c)') =>
                 output'[c].referral_required = TRUE
          /\ ReferralStep(c) =>
                /\ C3_Acted(c) <=>
                      (/\ C3_Known(c)
                       /\ ~result[c].referral_required
                       /\ ~C2_Triggered(c))
                /\ C3_Acted(c) =>
                      /\ result'[c].referral_required = TRUE
                      /\ result'[c].severity_score = result[c].severity_score
                      /\ result'[c].reasoning =
                            Append(result[c].reasoning, MonitoringNotice)]_vars

C3_Witness ==
    \E c \in Callers :
        /\ Done(c)
        /\ "eczema" \in KnownIssueSet(c)
        /\ output[c].condition_label = "dry_scalp"
        /\ output[c].referral_required = TRUE
        /\ output[c].severity_score = 2
        /\ Last(output[c].reasoning) = MonitoringNotice

\* the candidate of the first rule, in the order of C4, whose score reaches
\* its threshold (the fallback when no score does)
C4_FirstByThreshold(data) ==
    IF FolliculitisScore(data) >= 5 THEN CheckFolliculitis(data)
    ELSE IF PsoriasisScore(data) >= 5 THEN CheckPsoriasis(data)
    ELSE IF TensionDamageScore(data) >= 5 THEN CheckTensionDamage(data)
    ELSE IF SeborrheicDermatitisScore(data) >= 4 THEN CheckSeborrheicDermatitis(data)
    ELSE IF ContactDermatitisScore(data) >= 4 THEN CheckContactDermatitis(data)
    ELSE IF ScalpAcneScore(data) >= 4 THEN CheckScalpAcne(data)
    ELSE IF ProductBuildupScore(data) >= 4 THEN CheckProductBuildup(data)
    ELSE IF DryScalpScore(data) >= 3 THEN CheckDryScalp(data)
    ELSE CreateUnclearResult(data)

\* C4: the decision tree returns the candidate of the first rule, in the order
\* Folliculitis, Psoriasis, TensionDamage, SeborrheicDermatitis,
\* ContactDermatitis, ScalpAcne, ProductBuildup, DryScalp, whose score reaches
\* its threshold; an input reaching both the Folliculitis and the
\* SeborrheicDermatitis threshold is labelled folliculitis.
C4_ChainOrder ==
    \A c \in Callers :
        /\ pc[c] = "matched" =>
              result[c] = C4_FirstByThreshold(triage_input[c])
        /\ Done(c) =>
              /\ C4_FirstByThreshold(triage_input[c]) # None
              /\ output[c].condition_label =
                    C4_FirstByThreshold(triage_input[c]).condition_label
              /\ (/\ FolliculitisScore(triage_input[c]) >= 5
                  /\ SeborrheicDermatitisScore(triage_input[c]) >= 4) =>
                     output[c].condition_label = "folliculitis"

C4_Witness ==
    \E c \in Callers :
        /\ Done(c)
        /\ FolliculitisScore(triage_input[c]) = 5
        /\ SeborrheicDermatitisScore(triage_input[c]) = 5
        /\ output[c].condition_label = "folliculitis"

\* C5: an input whose symptoms contain bumps is never labelled tension_damage.
C5_BumpsDisqualify ==
    \A c \in Callers :
        (Done(c) /\ "bumps" \in SymptomSet(c)) =>
            output[c].condition_label # "tension_damage"

C5_Witness ==
    \E c \in Callers :
        /\ Done(c)
        /\ {"tenderness", "hair_loss", "bumps"} \subseteq SymptomSet(c)
        /\ triage_input[c].style_type \in PROTECTIVE_STYLES
        /\ TensionDamageScore(triage_input[c]) >= 5
        /\ output[c].condition_label # "tension_damage"

\* C6: when a severe-symptom token is added to the symptoms of a mapping whose
\* result was not referred, the new result is referred and its severity_score
\* is not lower than the original one.
C6_Monotonic ==
    \A c \in Callers :
        (/\ Done(c)
         /\ rel[c] = "severe_added"
         /\ prev[c].output.referral_required = FALSE) =>
            /\ output[c].referral_required = TRUE
            /\ output[c].severity_score >= prev[c].output.severity_score

C6_Witness ==
    \E c \in Callers :
        /\ Done(c)
        /\ rel[c] = "severe_added"
        /\ "fever" \in SymptomSet(c)
        /\ prev[c].output.referral_required = FALSE
        /\ prev[c].output.condition_label = "dry_scalp"
        /\ output[c].condition_label = "unclear"
        /\ output[c].severity_score = 8

\* no rule of the chain matches the call's input
C7_NoRuleMatches(c) ==
    \A i \in 1..Len(InitialRuleChain) :
        CallRule(InitialRuleChain[i], triage_input[c]) = None

\* C7 as stated: unclear is returned only when no rule matches, and every
\* unclear record has referral_required = TRUE, confidence low, severity 5.
C7_UnclearSeverityFive ==
    \A c \in Callers :
        (Done(c) /\ output[c].condition_label = "unclear") =>
            /\ C7_NoRuleMatches(c)
            /\ output[c].referral_required = TRUE
            /\ output[c].confidence_level = "low"
            /\ output[c].severity_score = 5

\* C7 (amended): unclear is returned only when no rule matches, and every
\* unclear record has referral_required = TRUE and confidence low; its
\* severity_score is 5, or 8 when the severe-symptom override was triggered.
C7_UnclearFallback ==
    \A c \in Callers :
        (Done(c) /\ output[c].condition_label = "unclear") =>
            /\ C7_NoRuleMatches(c)
            /\ output[c].referral_required = TRUE
            /\ output[c].confidence_level = "low"
            /\ output[c].severity_score = IF C2_Triggered(c) THEN 8 ELSE 5

C7_Witness ==
    \E c \in Callers :
        /\ Done(c)
        /\ output[c].condition_label = "unclear"
        /\ ~C2_Triggered(c)
        /\ SymptomSet(c) # {}
        /\ output[c].severity_score = 5

\* C8: folliculitis, psoriasis and tension_damage records are always referred,
\* folliculitis records have severity_score 8, and symptoms [bumps, pain] with
\* style_type braids give folliculitis, referred, severity 8.
C8_AlwaysRefer ==
    \A c \in Callers :
        Done(c) =>
            /\ output[c].condition_label \in
                  {"folliculitis", "psoriasis", "tension_damage"} =>
                     output[c].referral_required = TRUE
            /\ output[c].condition_label = "folliculitis" =>
                     output[c].severity_score = 8
            /\ input_data[c] = Example2 =>
                  /\ output[c].condition_label = "folliculitis"
                  /\ output[c].referral_required = TRUE
                  /\ output[c].severity_score = 8

C8_Witness ==
    \E c \in Callers :
        /\ Done(c)
        /\ input_data[c] = Example2
        /\ output[c].condition_label = "folliculitis"

\* C9: the returned severity_score is an integer in 1..10 and the returned
\* confidence_level is low, moderate or high.
C9_Ranges ==
    \A c \in Callers :
        Done(c) =>
            /\ output[c].severity_score \in 1..10
            /\ output[c].confidence_level \in {"low", "moderate", "high"}

C9_Witness ==
    \E c \in Callers :
        /\ Done(c)
        /\ C2_Triggered(c)
        /\ output[c].condition_label = "folliculitis"
        /\ output[c].severity_score = 8
        /\ output[c].confidence_level = "high"

\* the locals of caller c's call
Frame(c) ==
    <<pc[c], engine[c], input_data[c], triage_input[c], result[c], output[c],
      prev[c], rel[c], response[c]>>

\* C10: classify is a function of its input mapping alone.  Two calls with the
\* same mapping return identical records, whether made one after the other by
\* one caller or by two callers whose steps interleave, on the same or on
\* different engines; and no step changes an engine's rule_chain or the locals
\* of another caller's call.
C10_PureFunction ==
    /\ [](\A c \in Callers :
             (Done(c) /\ rel[c] = "same") => output[c] = prev[c].output)
    /\ [](\A c, d \in Callers :
             (Done(c) /\ Done(d) /\ input_data[c] = input_data[d]) =>
                 output[c] = output[d])
    /\ [](\A c, d \in Callers :
             (Done(c) /\ prev[d].input = input_data[c]) =>
                 output[c] = prev[d].output)
    /\ [][/\ rule_chain' = rule_chain
          /\ \A c \in Callers :
                pc'[c] = pc[c] => Frame(c)' = Frame(c)]_vars

C10_Witness ==
    /\ Done(1) /\ Done(2)
    /\ engine[1] # engine[2]
    /\ input_data[1] = input_data[2]
    /\ rel[1] = "same" /\ rel[2] = "first"
    /\ prev[1].input = input_data[1]
    /\ output[1] = output[2]
    /\ output[1].condition_label = "seborrheic_dermatitis"

\* the result fields other than reasoning
Verdict(o) ==
    <<o.condition_label, o.care_plan_id, o.referral_required,
      o.confidence_level, o.severity_score>>

\* C11: symptoms, product_use and known_issues are treated as sets: mappings
\* that differ only in the order or the repetition of tokens in these lists
\* get identical records.
C11_SetSemantics ==
    \A c \in Callers :
        (Done(c) /\ rel[c] \in {"reordered", "repeated"}) =>
            output[c] = prev[c].output

\* C12: adding an unrecognized token to symptoms, product_use or known_issues
\* leaves condition_label, care_plan_id, referral_required, confidence_level
\* and severity_score unchanged.
C12_UnrecognizedInert ==
    \A c \in Callers :
        (Done(c) /\ rel[c] = "unrecognized_added") =>
            Verdict(output[c]) = Verdict(prev[c].output)

\* C13: every dry_scalp record has confidence_level moderate, whatever the
\* DryScalp score; symptoms [dryness], style none, wash monthly, no products
\* and no known issues give dry_scalp with confidence moderate.
C13_DryScalpModerate ==
    \A c \in Callers :
        Done(c) =>
            /\ output[c].condition_label = "dry_scalp" =>
                  output[c].confidence_level = "moderate"
            /\ input_data[c] = Example3 =>
                  /\ output[c].condition_label = "dry_scalp"
                  /\ output[c].confidence_level = "moderate"

C13_Witness ==
    \E c \in Callers :
        /\ Done(c)
        /\ input_data[c] = Example3
        /\ DryScalpScore(triage_input[c]) = 6
        /\ output[c].condition_label = "dry_scalp"

\* C14: symptoms [itching, flaking], style natural, wash weekly, products
\* [oil], no known issues give seborrheic_dermatitis, CP-001, not referred.
C14_Example1 ==
    \A c \in Callers :
        (Done(c) /\ input_data[c] = Example1) =>
            /\ output[c].condition_label = "seborrheic_dermatitis"
            /\ output[c].care_plan_id = "CP-001"
            /\ output[c].referral_required = FALSE

C14_Witness ==
    \E c \in Callers :
        /\ Done(c)
        /\ input_data[c] = Example1
        /\ rel[c] = "first"
        /\ output[c].severity_score = 4

IsPrefix(xs, ys) ==
    /\ Len(xs) <= Len(ys)
    /\ \A i \in 1..Len(xs) : xs[i] = ys[i]

\* C17: _apply_referral_rules never lowers severity_score, never clears
\* referral_required, keeps the candidate's reasoning as the start of the new
\* reasoning, and leaves condition_label, care_plan_id and confidence_level.
C17_OverrideMonotonic ==
    [][\A c \in Callers :
          ReferralStep(c) =>
             /\ result'[c].severity_score >= result[c].severity_score
             /\ result[c].referral_required => result'[c].referral_required
             /\ IsPrefix(result[c].reasoning, result'[c].reasoning)
             /\ result'[c].condition_label = result[c].condition_label
             /\ result'[c].care_plan_id = result[c].care_plan_id
             /\ result'[c].confidence_level = result[c].confidence_level]_vars

C17_Witness ==
    \E c \in Callers :
        /\ pc[c] = "overridden"
        /\ result[c].condition_label = "seborrheic_dermatitis"
        /\ result[c].severity_score = 8
        /\ Len(result[c].reasoning) = 3
        /\ Last(result[c].reasoning) = UrgentNotice

\* C18: a tension_damage record is returned only for a style_type that is not
\* protective and for symptoms with both a tenderness/pain token and a
\* hair-loss token.
C18_TensionNotProtective ==
    \A c \in Callers :
        (Done(c) /\ output[c].condition_label = "tension_damage") =>
            /\ triage_input[c].style_type \notin
                  {"braids", "cornrows", "weave", "extensions", "locs",
                   "twists", "faux_locs", "crochet", "tight_ponytail"}
            /\ SymptomSet(c) \cap {"tenderness", "tender", "sore", "soreness",
                                   "pain", "painful"} # {}
            /\ SymptomSet(c) \cap {"hair_loss", "thinning", "bald_spots",
                                   "edges_thinning", "breakage"} # {}

C18_Witness ==
    \E c \in Callers :
        /\ Done(c)
        /\ output[c].condition_label = "tension_damage"
        /\ triage_input[c].style_type = "none"
        /\ {"tenderness", "hair_loss"} \subseteq SymptomSet(c)

\* the guarantee the engine consumes: symptoms is a non-empty list of
\* strings, style_type and wash_frequency are strings
Guarantee(data) ==
    /\ IsObj(data)
    /\ {"symptoms", "style_type", "wash_frequency"} \subseteq DOMAIN data.obj
    /\ IsList(data.obj["symptoms"])
    /\ Len(data.obj["symptoms"].list) > 0
    /\ \A i \in 1..Len(data.obj["symptoms"].list) :
          IsStr(data.obj["symptoms"].list[i])
    /\ IsStr(data.obj["style_type"])
    /\ IsStr(data.obj["wash_frequency"])

\* C15: the triage handler invokes classify only for requests that passed
\* validation, so at every classify invocation symptoms is a non-empty
\* sequence of strings and style_type and wash_frequency are strings; a
\* request failing validation is answered with an error and classify is not
\* run for it.
C15_ValidatedBeforeClassify ==
    \A c \in Callers :
        /\ pc[c] \in {"called", "parsed", "matched", "overridden", "done", "raised"} =>
              /\ Validation(input_data[c]).kind = "ok"
              /\ Guarantee(input_data[c])
        /\ (pc[c] = "responded" /\ Validation(input_data[c]).kind # "ok") =>
              /\ response[c].status_code >= 400
              /\ "html" \notin DOMAIN response[c].body =>
                    response[c].body.status = "error"
              /\ triage_input[c] = None
              /\ output[c] = None

\* C16: for the request documented on the triage endpoint the response
\* carries seborrheic_dermatitis, CP-001, referral_required false,
\* confidence_level high and severity_score 4.
C16_DocumentedResponse ==
    \A c \in Callers :
        (pc[c] = "responded" /\ input_data[c] = DocRequest) =>
            /\ response[c].status_code = 200
            /\ response[c].body.condition_label = "seborrheic_dermatitis"
            /\ response[c].body.care_plan_id = "CP-001"
            /\ response[c].body.referral_required = FALSE
            /\ response[c].body.confidence_level = "high"
            /\ response[c].body.severity_score = 4

====
